---------------------------- MODULE Spec2Model ----------------------------
(***************************************************************************)
(* A model of the CCIP-Read gateway of rbrick/go-ccip-read: the signature  *)
(* parser (ParseFunction, parseParameters), the selector registry          *)
(* (CCIPReadResolver.Handle) and the request pipeline                      *)
(* (CCIPReadResolver.ServeHTTP).                                           *)
(*                                                                         *)
(* Representation.  A Go string is a sequence of one-character strings, a  *)
(* []byte is a sequence of numbers in 0..255, and a uint32 is the pair     *)
(* <<high 16 bits, low 16 bits>>.  A Go (value, error) result is a record  *)
(* with a field err that is NoErr for a nil error.                         *)
(***************************************************************************)
EXTENDS Integers, Sequences, FiniteSets, TLC

NoErr == "nil"

(***************************************************************************)
(* Characters.                                                             *)
(***************************************************************************)
Lower == {"a","b","c","d","e","f","g","h","i","j","k","l","m",
          "n","o","p","q","r","s","t","u","v","w","x","y","z"}
Upper == {"A","B","C","D","E","F","G","H","I","J","K","L","M",
          "N","O","P","Q","R","S","T","U","V","W","X","Y","Z"}
Digit == {"0","1","2","3","4","5","6","7","8","9"}
Letter == Lower \cup Upper
\* \s of the regular expression, and the white space of TrimSpace and Fields
Space == {" ", "\t", "\n", "\r"}

(***************************************************************************)
(* hexutil.Decode, hexutil.Encode and common.HexToAddress (go-ethereum),   *)
(* as resolver.go calls them.                                              *)
(***************************************************************************)
HexVal(c) ==
    CASE c = "0" -> 0  [] c = "1" -> 1  [] c = "2" -> 2  [] c = "3" -> 3
      [] c = "4" -> 4  [] c = "5" -> 5  [] c = "6" -> 6  [] c = "7" -> 7
      [] c = "8" -> 8  [] c = "9" -> 9
      [] c \in {"a", "A"} -> 10  [] c \in {"b", "B"} -> 11
      [] c \in {"c", "C"} -> 12  [] c \in {"d", "D"} -> 13
      [] c \in {"e", "E"} -> 14  [] c \in {"f", "F"} -> 15
      [] OTHER -> -1

HexChar(n) ==
    <<"0","1","2","3","4","5","6","7","8","9","a","b","c","d","e","f">>[n + 1]

has0xPrefix(s) == Len(s) >= 2 /\ s[1] = "0" /\ s[2] \in {"x", "X"}

Drop(s, n) == SubSeq(s, n + 1, Len(s))

\* hex.DecodeString: the bytes of the leading pairs of hex digits, and whether
\* the whole string was such pairs
RECURSIVE hexDecodeString(_)
hexDecodeString(s) ==
    IF Len(s) = 0 THEN [err |-> NoErr, val |-> <<>>]
    ELSE IF HexVal(s[1]) < 0 THEN [err |-> "invalid hex string", val |-> <<>>]
    ELSE IF Len(s) = 1 THEN [err |-> "hex string of odd length", val |-> <<>>]
    ELSE IF HexVal(s[2]) < 0 THEN [err |-> "invalid hex string", val |-> <<>>]
    ELSE LET rest == hexDecodeString(Drop(s, 2))
         IN  [err |-> rest.err,
              val |-> <<16 * HexVal(s[1]) + HexVal(s[2])>> \o rest.val]

\* hexutilDecode without the check of the 0x prefix
hexutilDecodeAnyPrefix(input) ==
    IF Len(input) = 0 THEN [err |-> "empty hex string", val |-> <<>>]
    ELSE LET r == hexDecodeString(IF has0xPrefix(input) THEN Drop(input, 2)
                                  ELSE input)
         IN  IF r.err = NoErr THEN r ELSE [err |-> r.err, val |-> <<>>]

hexutilDecode(input) ==
    IF Len(input) = 0 THEN [err |-> "empty hex string", val |-> <<>>]
    ELSE IF ~has0xPrefix(input)
         THEN [err |-> "hex string without 0x prefix", val |-> <<>>]
    ELSE LET r == hexDecodeString(Drop(input, 2))
         IN  IF r.err = NoErr THEN r ELSE [err |-> r.err, val |-> <<>>]

RECURSIVE hexOf(_)
hexOf(b) ==
    IF Len(b) = 0 THEN <<>>
    ELSE <<HexChar(b[1] \div 16), HexChar(b[1] % 16)>> \o hexOf(Tail(b))

hexutilEncode(b) == <<"0", "x">> \o hexOf(b)

AddressLength == 20
WordLen == 32

Zeros(n) == [i \in 1..n |-> 0]

\* left-pad to n bytes, or keep the last n bytes
LeftPad(b, n) ==
    IF Len(b) >= n THEN SubSeq(b, Len(b) - n + 1, Len(b))
    ELSE Zeros(n - Len(b)) \o b

\* common.HexToAddress: FromHex drops a 0x prefix, pads an odd length with a
\* leading 0 and keeps what hex.DecodeString decoded; BytesToAddress keeps
\* the last 20 bytes, left-padded with zeros
HexToAddress(s) ==
    LET s1 == IF has0xPrefix(s) THEN Drop(s, 2) ELSE s
        s2 == IF Len(s1) % 2 = 1 THEN <<"0">> \o s1 ELSE s1
    IN  LeftPad(hexDecodeString(s2).val, AddressLength)


(***************************************************************************)
(* abi.NewType (go-ethereum), as parseParameters calls it: the type token  *)
(* holds no brackets (the signature pattern admits only letters, digits,   *)
(* white space and commas), so the array branch is never taken.  typeRegex *)
(* ([a-zA-Z]+)(([0-9]+)(x([0-9]+))?)? is searched, not anchored: its first *)
(* match is the first run of letters with the digits that follow it.       *)
(***************************************************************************)
RECURSIVE SkipWhile(_, _, _)
\* the first position >= pos of s whose character is not in class
SkipWhile(s, pos, class) ==
    IF pos <= Len(s) /\ s[pos] \in class THEN SkipWhile(s, pos + 1, class)
    ELSE pos

RECURSIVE SkipUntil(_, _, _)
SkipUntil(s, pos, class) ==
    IF pos <= Len(s) /\ s[pos] \notin class THEN SkipUntil(s, pos + 1, class)
    ELSE pos

RECURSIVE Atoi(_)
Atoi(ds) ==
    IF Len(ds) = 0 THEN 0
    ELSE 10 * Atoi(SubSeq(ds, 1, Len(ds) - 1)) + HexVal(ds[Len(ds)])

TyUint == <<"u","i","n","t">>
TyInt == <<"i","n","t">>
TyBool == <<"b","o","o","l">>
TyAddress == <<"a","d","d","r","e","s","s">>
TyString == <<"s","t","r","i","n","g">>
TyBytes == <<"b","y","t","e","s">>
TyTuple == <<"t","u","p","l","e">>
TyFunction == <<"f","u","n","c","t","i","o","n">>

\* [err, T, Size, stringKind]
NewType(t) ==
    LET from == SkipUntil(t, 1, Letter)
        mid == SkipWhile(t, from, Letter)
        to == SkipWhile(t, mid, Digit)
        varType == SubSeq(t, from, mid - 1)
        sizeStr == SubSeq(t, mid, to - 1)
        varSize == Atoi(sizeStr)
        bad(msg) == [err |-> msg, T |-> "", Size |-> 0, stringKind |-> t]
        good(T, n) == [err |-> NoErr, T |-> T, Size |-> n, stringKind |-> t]
    IN  IF from > Len(t) THEN bad("invalid type")
        ELSE IF Len(sizeStr) = 0 /\ varType \in {TyUint, TyInt}
             THEN bad("unsupported arg type")
        ELSE CASE varType = TyInt -> good("int", varSize)
               [] varType = TyUint -> good("uint", varSize)
               [] varType = TyBool -> good("bool", 0)
               [] varType = TyAddress -> good("address", AddressLength)
               [] varType = TyString -> good("string", 0)
               [] varType = TyBytes ->
                    IF varSize = 0 THEN good("bytes", 0)
                    ELSE IF varSize > WordLen THEN bad("unsupported arg type")
                    ELSE good("fixedbytes", varSize)
               [] varType = TyTuple -> good("tuple", 0)
               [] varType = TyFunction -> good("function", 24)
               [] OTHER -> bad("unsupported arg type")

(***************************************************************************)
(* The ABI codec (go-ethereum Arguments.UnpackValues and PackValues) for   *)
(* the static element types, one 32-byte word each.  Go values: a bool, a  *)
(* *big.Int (its big-endian bytes without leading zeros) or a byte array   *)
(* (common.Address is [20]byte, bytes32 is [32]byte).                      *)
(***************************************************************************)
GoBool(b) == [kind |-> "Bool", v |-> b]
GoBig(bytes) == [kind |-> "Ptr", v |-> bytes]
GoArray(bytes) == [kind |-> "Array", v |-> bytes]

RECURSIVE StripZeros(_)
StripZeros(b) == IF Len(b) > 0 /\ b[1] = 0 THEN StripZeros(Tail(b)) ELSE b

RightPad(b, n) == IF Len(b) >= n THEN b ELSE b \o Zeros(n - Len(b))

\* the reflect.Kind that Type.GetType() has
KindOf(typ) ==
    CASE typ.T \in {"int", "uint"} /\ typ.Size = 256 -> "Ptr"
      [] typ.T = "bool" -> "Bool"
      [] typ.T \in {"address", "fixedbytes"} -> "Array"

\* toGoType(index, t, output) for a static element type
toGoType(index, typ, output) ==
    IF index + WordLen > Len(output)
    THEN [err |-> "abi: cannot marshal in to go type: length insufficient"]
    ELSE LET word == SubSeq(output, index + 1, index + WordLen)
         IN  CASE typ.T \in {"int", "uint"} /\ typ.Size = 256 ->
                    [err |-> NoErr, val |-> GoBig(StripZeros(word))]
               [] typ.T = "bool" ->
                    IF SubSeq(word, 1, WordLen - 1) # Zeros(WordLen - 1)
                          \/ word[WordLen] \notin {0, 1}
                    THEN [err |-> "abi: improperly encoded boolean value"]
                    ELSE [err |-> NoErr, val |-> GoBool(word[WordLen] = 1)]
               [] typ.T = "address" ->
                    [err |-> NoErr,
                     val |-> GoArray(LeftPad(word, AddressLength))]
               [] typ.T = "fixedbytes" ->
                    [err |-> NoErr, val |-> GoArray(SubSeq(word, 1, typ.Size))]

RECURSIVE unpackFrom(_, _, _)
unpackFrom(arguments, data, index) ==
    IF index > Len(arguments) THEN [err |-> NoErr, val |-> <<>>]
    ELSE LET v == toGoType((index - 1) * WordLen, arguments[index].Type, data)
         IN  IF v.err # NoErr THEN [err |-> v.err, val |-> <<>>]
             ELSE LET rest == unpackFrom(arguments, data, index + 1)
                  IN  IF rest.err # NoErr THEN rest
                      ELSE [err |-> NoErr, val |-> <<v.val>> \o rest.val]

UnpackValues(arguments, data) == unpackFrom(arguments, data, 1)

\* typeCheck and packElement of one value against one type
packOne(typ, value) ==
    IF KindOf(typ) # value.kind
         \/ (typ.T = "fixedbytes" /\ typ.Size # Len(value.v))
    THEN [err |-> "abi: cannot use value as type", val |-> <<>>]
    ELSE [err |-> NoErr,
          val |-> CASE typ.T \in {"int", "uint"} -> LeftPad(value.v, WordLen)
                    [] typ.T = "bool" ->
                         Zeros(WordLen - 1) \o <<IF value.v THEN 1 ELSE 0>>
                    [] typ.T = "address" ->
                         IF Len(value.v) >= WordLen THEN value.v
                         ELSE LeftPad(value.v, WordLen)
                    [] typ.T = "fixedbytes" -> RightPad(value.v, WordLen)]

RECURSIVE packFrom(_, _, _)
packFrom(arguments, args, index) ==
    IF index > Len(arguments) THEN [err |-> NoErr, val |-> <<>>]
    ELSE LET p == packOne(arguments[index].Type, args[index])
         IN  IF p.err # NoErr THEN p
             ELSE LET rest == packFrom(arguments, args, index + 1)
                  IN  IF rest.err # NoErr THEN rest
                      ELSE [err |-> NoErr, val |-> p.val \o rest.val]

\* PackValues without the check of the argument count
PackValuesNoCountCheck(arguments, args) ==
    LET n == IF Len(args) < Len(arguments) THEN Len(args) ELSE Len(arguments)
    IN  packFrom(SubSeq(arguments, 1, n), SubSeq(args, 1, n), 1)

PackValues(arguments, args) ==
    IF Len(args) # Len(arguments)
    THEN [err |-> "abi: argument count mismatch", val |-> <<>>]
    ELSE packFrom(arguments, args, 1)

(***************************************************************************)
(* The signature parser.  FunctionPattern is, piece by piece:              *)
(*   "function", one or more \s, the group functionName (one letter, then  *)
(*   one or more of letter, digit, underscore), any \s, "(", the group     *)
(*   input (any number of letter, digit, \s, comma), ")", one or more \s,  *)
(*   the group mutability ("pure" or "view"), any \s, "returns", one or    *)
(*   more \s, "(", the group output (as input), ")".                       *)
(* Every repetition in it is followed by a character outside the repeated  *)
(* class, so from a given start the greedy match is the only one; the      *)
(* pattern is not anchored, and the match used is the leftmost one.        *)
(***************************************************************************)
KwFunction == <<"f","u","n","c","t","i","o","n">>
KwPure == <<"p","u","r","e">>
KwView == <<"v","i","e","w">>
KwReturns == <<"r","e","t","u","r","n","s">>

NameChar == Letter \cup Digit \cup {"_"}
ListChar == Letter \cup Digit \cup Space \cup {","}

HasLit(s, pos, lit) ==
    /\ pos >= 1
    /\ pos + Len(lit) - 1 <= Len(s)
    /\ SubSeq(s, pos, pos + Len(lit) - 1) = lit

\* the match of FunctionPattern that starts at pos, if there is one
MatchAt(s, pos) ==
    LET p1 == pos + Len(KwFunction)
        p2 == SkipWhile(s, p1, Space)
        p3 == p2 + 1
        p4 == SkipWhile(s, p3, NameChar)
        p5 == SkipWhile(s, p4, Space)
        p6 == p5 + 1
        p7 == SkipWhile(s, p6, ListChar)
        p8 == p7 + 1
        p9 == SkipWhile(s, p8, Space)
        p10 == p9 + Len(KwPure)
        p11 == SkipWhile(s, p10, Space)
        p12 == p11 + Len(KwReturns)
        p13 == SkipWhile(s, p12, Space)
        p14 == p13 + 1
        p15 == SkipWhile(s, p14, ListChar)
        ok == /\ HasLit(s, pos, KwFunction)
              /\ p2 > p1
              /\ p2 <= Len(s) /\ s[p2] \in Letter
              /\ p4 > p3
              /\ HasLit(s, p5, <<"(">>)
              /\ HasLit(s, p7, <<")">>)
              /\ p9 > p8
              /\ (HasLit(s, p9, KwPure) \/ HasLit(s, p9, KwView))
              /\ HasLit(s, p11, KwReturns)
              /\ p13 > p12
              /\ HasLit(s, p13, <<"(">>)
              /\ HasLit(s, p15, <<")">>)
    IN  IF ok
        THEN [ok |-> TRUE,
              functionName |-> SubSeq(s, p2, p4 - 1),
              input |-> SubSeq(s, p6, p7 - 1),
              mutability |-> SubSeq(s, p9, p10 - 1),
              output |-> SubSeq(s, p14, p15 - 1)]
        ELSE [ok |-> FALSE]

RECURSIVE FindFrom(_, _)
\* FunctionRegex.FindStringSubmatch: the leftmost match
FindFrom(s, pos) ==
    IF pos > Len(s) THEN [ok |-> FALSE]
    ELSE LET m == MatchAt(s, pos)
         IN  IF m.ok THEN m ELSE FindFrom(s, pos + 1)

FindStringSubmatch(s) == FindFrom(s, 1)

RECURSIVE Split(_, _)
\* strings.Split(s, sep) for a one-character sep
Split(s, sep) ==
    LET cut == SkipUntil(s, 1, {sep})
    IN  IF cut > Len(s) THEN <<s>>
        ELSE <<SubSeq(s, 1, cut - 1)>> \o Split(Drop(s, cut), sep)

RECURSIVE TrimRight(_)
TrimRight(s) ==
    IF Len(s) > 0 /\ s[Len(s)] \in Space THEN TrimRight(SubSeq(s, 1, Len(s) - 1))
    ELSE s

TrimSpace(s) == TrimRight(Drop(s, SkipWhile(s, 1, Space) - 1))

RECURSIVE Fields(_)
\* strings.Fields: the maximal runs of characters that are not white space
Fields(s) ==
    LET from == SkipWhile(s, 1, Space)
        to == SkipUntil(s, from, Space)
    IN  IF from > Len(s) THEN <<>>
        ELSE <<SubSeq(s, from, to - 1)>> \o Fields(Drop(s, to - 1))

paramNames ==
    <<"a","b","c","d","e","f","g","h","i","j","k","l","m",
      "n","o","p","q","r","s","t","u","v","w","x","y","z">>

ErrPanic == "panic: slice bounds out of range"
ErrParamFormat == "invalid parameter format"
ErrParamType == "invalid parameter type"

RECURSIVE parseFrom(_, _)
RECURSIVE parseFromLetterAfter(_, _)
\* parseFrom with the default name taken one letter too far
parseFromLetterAfter(params, i) ==
    IF i >= Len(params) THEN [err |-> NoErr, val |-> <<>>]
    ELSE
      LET param == TrimSpace(params[i + 1])
          fields == Fields(param)
          abiType == NewType(fields[1])
          paramName == IF Len(fields) = 2 THEN fields[2]
                       ELSE SubSeq(paramNames, i + 2, i + 2)
      IN  IF param = <<>> THEN parseFromLetterAfter(params, i + 1)
          ELSE IF Len(fields) < 1 \/ Len(fields) > 2
               THEN [err |-> ErrParamFormat, val |-> <<>>]
          ELSE IF i + 1 > Len(paramNames) THEN [err |-> ErrPanic, val |-> <<>>]
          ELSE IF abiType.err # NoErr THEN [err |-> ErrParamType, val |-> <<>>]
          ELSE LET rest == parseFromLetterAfter(params, i + 1)
               IN  IF rest.err # NoErr THEN rest
                   ELSE [err |-> NoErr,
                         val |-> <<[Name |-> paramName, Type |-> abiType]>>
                                    \o rest.val]

RECURSIVE parseFromSkipsBadType(_, _)
\* parseFrom going on to the next entry where the type is invalid
parseFromSkipsBadType(params, i) ==
    IF i >= Len(params) THEN [err |-> NoErr, val |-> <<>>]
    ELSE
      LET param == TrimSpace(params[i + 1])
          fields == Fields(param)
          abiType == NewType(fields[1])
          paramName == IF Len(fields) = 2 THEN fields[2]
                       ELSE SubSeq(paramNames, i + 1, i + 1)
      IN  IF param = <<>> THEN parseFromSkipsBadType(params, i + 1)
          ELSE IF Len(fields) < 1 \/ Len(fields) > 2
               THEN [err |-> ErrParamFormat, val |-> <<>>]
          ELSE IF i + 1 > Len(paramNames) THEN [err |-> ErrPanic, val |-> <<>>]
          ELSE IF abiType.err # NoErr
               THEN parseFromSkipsBadType(params, i + 1)
          ELSE LET rest == parseFromSkipsBadType(params, i + 1)
               IN  IF rest.err # NoErr THEN rest
                   ELSE [err |-> NoErr,
                         val |-> <<[Name |-> paramName, Type |-> abiType]>>
                                    \o rest.val]

\* the loop of parseParameters from the entry of (zero-based) index i on
parseFrom(params, i) ==
    IF i >= Len(params) THEN [err |-> NoErr, val |-> <<>>]
    ELSE
      LET param == TrimSpace(params[i + 1])
          fields == Fields(param)
          abiType == NewType(fields[1])
          paramName == IF Len(fields) = 2 THEN fields[2]
                       ELSE SubSeq(paramNames, i + 1, i + 1)
      IN  IF param = <<>> THEN parseFrom(params, i + 1)
          ELSE IF Len(fields) < 1 \/ Len(fields) > 2
               THEN [err |-> ErrParamFormat, val |-> <<>>]
          ELSE IF i + 1 > Len(paramNames) THEN [err |-> ErrPanic, val |-> <<>>]
          ELSE IF abiType.err # NoErr THEN [err |-> ErrParamType, val |-> <<>>]
          ELSE LET rest == parseFrom(params, i + 1)
               IN  IF rest.err # NoErr THEN rest
                   ELSE [err |-> NoErr,
                         val |-> <<[Name |-> paramName, Type |-> abiType]>>
                                    \o rest.val]

parseParameters(paramStr) == parseFrom(Split(paramStr, ","), 0)

RECURSIVE JoinTypes(_)
\* strings.Join(types, ",") of the arguments' Type.String()
JoinTypes(arguments) ==
    IF Len(arguments) = 0 THEN <<>>
    ELSE IF Len(arguments) = 1 THEN arguments[1].Type.stringKind
    ELSE arguments[1].Type.stringKind \o <<",">> \o JoinTypes(Tail(arguments))

\* crypto.Keccak256([]byte(sig))[:4], tabulated for the canonical signatures
\* the model computes a selector of: addr(bytes32), ok(bool), ok(),
\* ok(bytes32), ok(bool,uint256), ok(address), f(bool), foo()
Keccak4(sig) ==
    CASE sig = <<"a","d","d","r","(","b","y","t","e","s","3","2",")">>
           -> <<59, 59, 87, 222>>
      [] sig = <<"o","k","(","b","o","o","l",")">>
           -> <<18, 233, 234, 206>>
      [] sig = <<"o","k","(",")">>
           -> <<217, 9, 180, 3>>
      [] sig = <<"o","k","(","b","y","t","e","s","3","2",")">>
           -> <<229, 103, 63, 250>>
      [] sig = <<"o","k","(","b","o","o","l",",","u","i","n","t","2","5","6",")">>
           -> <<137, 122, 193, 52>>
      [] sig = <<"o","k","(","a","d","d","r","e","s","s",")">>
           -> <<249, 124, 195, 118>>
      [] sig = <<"f","(","b","o","o","l",")">>
           -> <<152, 195, 166, 193>>
      [] sig = <<"f","o","o","(",")">>
           -> <<194, 152, 85, 120>>

\* NewMethod with the signature written from the outputs
NewMethodSigOfOutputs(name, mutability, inputs, outputs) ==
    LET sig == name \o <<"(">> \o JoinTypes(outputs) \o <<")">>
    IN  [Name |-> name, RawName |-> name, StateMutability |-> mutability,
         Inputs |-> inputs, Outputs |-> outputs, Sig |-> sig,
         ID |-> Keccak4(sig)]

\* abi.NewMethod for a function: Sig is rawName(types of the inputs) and ID
\* the first four bytes of its hash
NewMethod(name, mutability, inputs, outputs) ==
    LET sig == name \o <<"(">> \o JoinTypes(inputs) \o <<")">>
    IN  [Name |-> name, RawName |-> name, StateMutability |-> mutability,
         Inputs |-> inputs, Outputs |-> outputs, Sig |-> sig,
         ID |-> Keccak4(sig)]

ErrInvalidFunctionSignature == "invalid function signature"
ErrInputParameters == "failed to parse input parameters"
ErrOutputParameters == "failed to parse output parameters"

\* [err, method]; a panic of parseParameters propagates unwrapped
ParseFunction(str) ==
    LET matches == FindStringSubmatch(str)
        parsedInputs == parseParameters(matches.input)
        parsedOutputs == parseParameters(matches.output)
    IN  IF ~matches.ok THEN [err |-> ErrInvalidFunctionSignature]
        ELSE IF parsedInputs.err = ErrPanic THEN [err |-> ErrPanic]
        ELSE IF parsedInputs.err # NoErr THEN [err |-> ErrInputParameters]
        ELSE IF parsedOutputs.err = ErrPanic THEN [err |-> ErrPanic]
        ELSE IF parsedOutputs.err # NoErr THEN [err |-> ErrOutputParameters]
        ELSE [err |-> NoErr,
              method |-> NewMethod(matches.functionName, matches.mutability,
                                   parsedInputs.val, parsedOutputs.val)]

\* "function addr(bytes32 namehash) view returns (address)"
SigAddr ==
    <<"f","u","n","c","t","i","o","n"," ","a","d","d","r","(","b","y","t","e","s","3","2"," ",
      "n","a","m","e","h","a","s","h",")"," ","v","i","e","w"," ","r","e","t","u","r","n","s",
      " ","(","a","d","d","r","e","s","s",")">>
\* "function addr(bytes32 node) pure returns (bytes32)"
SigAddrAlt ==
    <<"f","u","n","c","t","i","o","n"," ","a","d","d","r","(","b","y","t","e","s","3","2"," ",
      "n","o","d","e",")"," ","p","u","r","e"," ","r","e","t","u","r","n","s"," ","(","b","y",
      "t","e","s","3","2",")">>
\* "function ok(bool) view returns (bool, uint256)"
SigOk ==
    <<"f","u","n","c","t","i","o","n"," ","o","k","(","b","o","o","l",")"," ","v","i","e","w",
      " ","r","e","t","u","r","n","s"," ","(","b","o","o","l",","," ","u","i","n","t","2","5",
      "6",")">>
\* "addr(bytes32) view returns (address)"
SigNoKeyword ==
    <<"a","d","d","r","(","b","y","t","e","s","3","2",")"," ","v","i","e","w"," ","r","e","t",
      "u","r","n","s"," ","(","a","d","d","r","e","s","s",")">>
\* "function foo(float x) view returns (bool)"
SigBadType ==
    <<"f","u","n","c","t","i","o","n"," ","f","o","o","(","f","l","o","a","t"," ","x",")"," ",
      "v","i","e","w"," ","r","e","t","u","r","n","s"," ","(","b","o","o","l",")">>

\* "function foo(bool a b) view returns (bool)"
SigBadFormat ==
    <<"f","u","n","c","t","i","o","n"," ","f","o","o","(","b","o","o","l"," ","a"," ","b",")",
      " ","v","i","e","w"," ","r","e","t","u","r","n","s"," ","(","b","o","o","l",")">>

\* the signatures Handle is called with
Sigs == {SigAddr, SigAddrAlt, SigOk, SigNoKeyword, SigBadType, SigBadFormat}

(***************************************************************************)
(* Signature texts for ParseFunction, written out from their parts: a      *)
(* function name, the entries of the input list, the mutability and the    *)
(* entries of the output list.  An entry is a type with or without a name, *)
(* or nothing at all (two commas in a row).                                *)
(***************************************************************************)
TBool == <<"b","o","o","l">>
TUint256 == <<"u","i","n","t","2","5","6">>
TBytes32 == <<"b","y","t","e","s","3","2">>
TAddress == <<"a","d","d","r","e","s","s">>

Entry(type, name) == [type |-> type, name |-> name]
Unnamed(type) == Entry(type, <<>>)
EmptyEntry == Entry(<<>>, <<>>)

\* one entry more than there are letters in paramNames
LongList == [i \in 1..(Len(paramNames) + 1) |-> Unnamed(TBool)]

InputLists ==
    { <<>>,
      <<Entry(TBytes32, <<"n","a","m","e","h","a","s","h">>)>>,
      <<Entry(TBytes32, <<"n","o","d","e">>)>>,
      <<Unnamed(TBool)>>,
      <<Unnamed(TBool), Unnamed(TUint256)>>,
      <<Entry(TBool, <<"b">>), Unnamed(TUint256)>>,
      <<Entry(TBool, <<"x">>), Entry(TUint256, <<"x">>)>>,
      <<Unnamed(TBool), EmptyEntry, Unnamed(TUint256)>>,
      LongList }

OutputLists ==
    { <<Unnamed(TAddress)>>, <<Unnamed(TBool), Unnamed(TUint256)>> }

\* the signatures that follow the documented format
SigParts ==
    { d \in [name : {<<"o","k">>, <<"f">>}, inputs : InputLists,
             mutability : {KwView, KwPure}, outputs : OutputLists] :
        /\ d.name = <<"f">> => d.inputs = <<Unnamed(TBool)>>
        /\ d.mutability = KwPure => d.outputs = <<Unnamed(TAddress)>>
        /\ d.inputs = LongList =>
              d.mutability = KwView /\ d.outputs = <<Unnamed(TAddress)>> }

EntryText(e) ==
    IF e.name = <<>> THEN e.type ELSE e.type \o <<" ">> \o e.name

RECURSIVE ListText(_)
ListText(l) ==
    IF l = <<>> THEN <<>>
    ELSE IF Len(l) = 1 THEN EntryText(l[1])
    ELSE EntryText(l[1]) \o <<",", " ">> \o ListText(Tail(l))

SigText(d) ==
    KwFunction \o <<" ">> \o d.name \o <<"(">> \o ListText(d.inputs)
      \o <<")", " ">> \o d.mutability \o <<" ">> \o KwReturns
      \o <<" ", "(">> \o ListText(d.outputs) \o <<")">>

\* texts that are not a signature of the documented format
MalformedSigs ==
    { SigNoKeyword,
      \* "function ok(bool) view (address)"
      <<"f","u","n","c","t","i","o","n"," ","o","k","(","b","o","o","l",")"," ","v","i","e","w",
        " ","(","a","d","d","r","e","s","s",")">>,
      \* "function ok(bool) payable returns (address)"
      <<"f","u","n","c","t","i","o","n"," ","o","k","(","b","o","o","l",")"," ","p","a","y","a",
        "b","l","e"," ","r","e","t","u","r","n","s"," ","(","a","d","d","r","e","s","s",")">>,
      \* "function ok(bool view returns (address)"
      <<"f","u","n","c","t","i","o","n"," ","o","k","(","b","o","o","l"," ","v","i","e","w"," ",
        "r","e","t","u","r","n","s"," ","(","a","d","d","r","e","s","s",")">>,
      \* "function ok(bool) view returns (address))"
      <<"f","u","n","c","t","i","o","n"," ","o","k","(","b","o","o","l",")"," ","v","i","e","w",
        " ","r","e","t","u","r","n","s"," ","(","a","d","d","r","e","s","s",")",")">>,
      \* "see function ok(bool) view returns (address)"
      <<"s","e","e"," ","f","u","n","c","t","i","o","n"," ","o","k","(","b","o","o","l",")"," ",
        "v","i","e","w"," ","r","e","t","u","r","n","s"," ","(","a","d","d","r","e","s","s",")">> }

\* the strings ParseFunction is called with
ParseInputs == {SigText(d) : d \in SigParts} \cup MalformedSigs

(***************************************************************************)
(* The resolver's configuration: the options of NewCCIPReadResolver.       *)
(***************************************************************************)
\* common.HexToAddress("0x11") and ("0x22")
AddrA == Zeros(AddressLength - 1) \o <<17>>
AddrB == Zeros(AddressLength - 1) \o <<34>>

RECURSIVE gatewaysValidator(_, _)
\* the closure Gateways installs: the loop over gateways, then the final
\* return
gatewaysValidator(gateways, sender) ==
    IF Len(gateways) = 0 THEN NoErr
    ELSE IF sender = gateways[1] THEN NoErr
    ELSE gatewaysValidator(Tail(gateways), sender)

\* Option values.  A validator handed to GatewayValidator is application
\* code: the model's one accepts the addresses of a set and rejects the rest.
Gateways(gateways) == [kind |-> "gateways", gateways |-> gateways]
GatewayValidator(allowed) == [kind |-> "custom", allowed |-> allowed]
NilFunc == [kind |-> "nil"]

ErrUnauthorized == "unauthorized sender"

\* r.senderValidator(senderAddr)
CallValidator(validator, sender) ==
    IF validator.kind = "gateways"
    THEN gatewaysValidator(validator.gateways, sender)
    ELSE IF sender \in validator.allowed THEN NoErr ELSE ErrUnauthorized

ValidatorOptions == {NilFunc, Gateways(<<AddrA>>), GatewayValidator({AddrA})}

\* OutputEncoding(encoder) stores the encoder; no option leaves it nil
EncoderOptions == {NilFunc, [kind |-> "custom"]}

(***************************************************************************)
(* The inputs: handlers, their results, and request bodies.                *)
(***************************************************************************)
\* the handler functions passed to Handle
HandlerIds == {"hA", "hB"}

ErrLookupFailed == "lookup failed"

Bytes32One == Zeros(WordLen - 1) \o <<1>>

\* what a handler may return: ([]interface{}, error)
HandlerResults ==
    { [err |-> ErrLookupFailed, outputs |-> <<>>],
      [err |-> NoErr, outputs |-> <<>>],
      [err |-> NoErr, outputs |-> <<GoArray(AddrA)>>],
      [err |-> NoErr, outputs |-> <<GoArray(Bytes32One)>>],
      [err |-> NoErr, outputs |-> <<GoBool(TRUE), GoBig(<<5>>)>>] }

\* "3b3b57de0000...0001 (72 characters)"
DataNoPrefix ==
    <<"3","b","3","b","5","7","d","e","0","0","0","0","0","0","0","0","0","0","0","0","0","0",
      "0","0","0","0","0","0","0","0","0","0","0","0","0","0","0","0","0","0","0","0","0","0",
      "0","0","0","0","0","0","0","0","0","0","0","0","0","0","0","0","0","0","0","0","0","0",
      "0","0","0","0","0","1">>
\* "0x3b3b"
DataShort ==
    <<"0","x","3","b","3","b">>
\* "0xdeadbeef"
DataUnknown ==
    <<"0","x","d","e","a","d","b","e","e","f">>
\* "0x3b3b57de00...0001 (74 characters)"
DataAddr ==
    <<"0","x","3","b","3","b","5","7","d","e","0","0","0","0","0","0","0","0","0","0","0","0",
      "0","0","0","0","0","0","0","0","0","0","0","0","0","0","0","0","0","0","0","0","0","0",
      "0","0","0","0","0","0","0","0","0","0","0","0","0","0","0","0","0","0","0","0","0","0",
      "0","0","0","0","0","0","0","1">>
\* "0x3B3B57DE"
DataAddrNoArgs ==
    <<"0","x","3","B","3","B","5","7","D","E">>
\* "0x12e9eace00...0001 (74 characters)"
DataOk ==
    <<"0","x","1","2","e","9","e","a","c","e","0","0","0","0","0","0","0","0","0","0","0","0",
      "0","0","0","0","0","0","0","0","0","0","0","0","0","0","0","0","0","0","0","0","0","0",
      "0","0","0","0","0","0","0","0","0","0","0","0","0","0","0","0","0","0","0","0","0","0",
      "0","0","0","0","0","0","0","1">>
\* "0x12e9eace00...0002 (74 characters)"
DataOkBadBool ==
    <<"0","x","1","2","e","9","e","a","c","e","0","0","0","0","0","0","0","0","0","0","0","0",
      "0","0","0","0","0","0","0","0","0","0","0","0","0","0","0","0","0","0","0","0","0","0",
      "0","0","0","0","0","0","0","0","0","0","0","0","0","0","0","0","0","0","0","0","0","0",
      "0","0","0","0","0","0","0","2">>

\* "0x11", "0x22"
SenderA == <<"0","x","1","1">>
SenderB == <<"0","x","2","2">>

DataStrings ==
    {<<>>, DataNoPrefix, DataShort, DataUnknown, DataAddr, DataAddrNoArgs,
     DataOk, DataOkBadBool}
SenderStrings == {<<>>, SenderA, SenderB}

\* a request body: one io.ReadAll fails on, one json.Unmarshal fails on, or
\* a JSON object with data and (when not empty) sender
Bodies ==
    {[kind |-> "unreadable"], [kind |-> "malformed"]}
      \cup {[kind |-> "object", data |-> d, sender |-> sn] :
               d \in DataStrings, sn \in SenderStrings}

HttpMethods == {"POST", "GET", "PUT"}

\* the number of Handle calls the model makes
MaxHandleCalls == 2

\* the 32-byte words the arguments of a bound request are decoded from
ArgWords == {Zeros(WordLen), Bytes32One, Zeros(WordLen - 1) \o <<5>>}

\* the names Var is called with; no parameter of the model is called "zz"
VarNames ==
    { <<"a">>, <<"b">>, <<"c">>, <<"x">>, <<"n","o","d","e">>,
      <<"n","a","m","e","h","a","s","h">>, <<"z","z">> }

\* the number of Var calls made on a bound request
MaxLookups == 2

\* the longest argument list a request is bound from
MaxArgs == 2

\* the number of ParseFunction calls the application makes itself
MaxParses == 2

\* the requests served
Reqs == {"r1"}

(***************************************************************************)
(* State.                                                                  *)
(*   handlers         CCIPReadResolver.handlers: uint32 -> registeredHandler *)
(*   senderValidator  CCIPReadResolver.senderValidator                     *)
(*   outputEncoder    CCIPReadResolver.outputEncoder                       *)
(*   handleCalls      the number of Handle calls made                      *)
(*   lastHandle       the arguments and the returned error of the last one *)
(*   req              per request: the position in ServeHTTP (pc), its     *)
(*                    locals, what was written to the ResponseWriter       *)
(*                    (status, body, writes), and its history: the steps   *)
(*                    executed, the calls made to the validator, to the    *)
(*                    handler and to the output encoder, the validator's   *)
(*                    answer and the handler called                        *)
(*   parses           the calls of ParseFunction made by the application   *)
(*                    itself: the string and what was returned             *)
(*   binding          a CCIPReadRequest built by the bind loop and the     *)
(*                    calls of Var made on it                              *)
(*   callers          the goroutines calling Handle, each with its         *)
(*                    position in Handle and the entry it is storing       *)
(***************************************************************************)
VARIABLES handlers, senderValidator, outputEncoder, handleCalls, lastHandle,
          req, parses, binding, callers

vars == <<handlers, senderValidator, outputEncoder, handleCalls, lastHandle,
          req, parses, binding, callers>>

\* what the steps of Handle and ServeHTTP never touch
apart == <<parses, binding>>

StatusOK == 200
StatusBadRequest == 400
StatusUnauthorized == 401
StatusNotFound == 404
StatusMethodNotAllowed == 405
StatusInternalServerError == 500

\* binary.BigEndian.Uint32 of the first four bytes
Uint32(b) == <<b[1] * 256 + b[2], b[3] * 256 + b[4]>>

IdleReq ==
    [pc |-> "idle", method |-> "", ccipReq |-> <<>>, data |-> <<>>,
     registered |-> <<>>, input |-> <<>>, result |-> <<>>,
     outputData |-> <<>>, status |-> 0, body |-> <<>>, writes |-> 0,
     steps |-> <<>>, validatorCalls |-> 0, validatorErr |-> NoErr,
     handlerCalls |-> 0, invoked |-> "", encoderCalls |-> 0]

\* no request bound yet
NoBinding == [method |-> <<>>, values |-> <<>>, Input |-> <<>>,
              lookups |-> <<>>]

\* the goroutines that call Handle
Callers == {"g1", "g2"}

\* a goroutine outside Handle
IdleCaller == [pc |-> "idle", sig |-> <<>>, handler |-> ""]

\* NewCCIPReadResolver(options...)
Init ==
    /\ handlers = <<>>
    /\ senderValidator \in ValidatorOptions
    /\ outputEncoder \in EncoderOptions
    /\ handleCalls = 0
    /\ lastHandle = [sig |-> <<>>, handler |-> "", err |-> NoErr]
    /\ req = [r \in Reqs |-> IdleReq]
    /\ parses = <<>>
    /\ binding = NoBinding
    /\ callers = [c \in Callers |-> IdleCaller]

\* r.handlers[key] = entry
MapStore(m, key, entry) ==
    [k \in DOMAIN m \cup {key} |-> IF k = key THEN entry ELSE m[k]]

\* Register with the key taken from the low half of the selector alone
RegisterLowHalf(m, method, handler) ==
    MapStore(m, <<0, Uint32(method.ID)[2]>>,
             [method |-> method, handler |-> handler])

\* the registry after Handle(sig, handler), given ParseFunction's method
Register(m, method, handler) ==
    MapStore(m, Uint32(method.ID), [method |-> method, handler |-> handler])

\* ParseFunction is a pure function: its results on the signatures Handle is
\* called with
ParsedSigs == [sig \in Sigs |-> ParseFunction(sig)]

\* CCIPReadResolver.Handle
Handle(sig, handler) ==
    /\ handleCalls < MaxHandleCalls
    /\ LET parsed == ParsedSigs[sig]
       IN  /\ handlers' = IF parsed.err # NoErr THEN handlers
                          ELSE Register(handlers, parsed.method, handler)
           /\ lastHandle' = [sig |-> sig, handler |-> handler,
                             err |-> parsed.err]
    /\ handleCalls' = handleCalls + 1
    /\ UNCHANGED <<senderValidator, outputEncoder, req, apart, callers>>

\* ParseFunction over the strings the application parses itself
ParsedInputs == [str \in ParseInputs |-> ParseFunction(str)]

(***************************************************************************)
(* ServeHTTP, one action per step of the pipeline.                         *)
(***************************************************************************)
\* Fail without the return: the position stays where it was
FailNoReturn(rq, step, code, msg, detail) ==
    [rq EXCEPT !.status = code, !.writes = @ + 1,
               !.body = <<[kind |-> "text", text |-> msg, detail |-> detail]>>,
               !.steps = Append(@, step)]

\* http.Error(rw, msg, code); return
Fail(rq, step, code, msg, detail) ==
    [rq EXCEPT !.pc = "done", !.status = code, !.writes = @ + 1,
               !.body = <<[kind |-> "text", text |-> msg, detail |-> detail]>>,
               !.steps = Append(@, step)]

Advance(rq, step, pc) == [rq EXCEPT !.pc = pc, !.steps = Append(@, step)]

Set(r, rq) ==
    /\ req' = [req EXCEPT ![r] = rq]
    /\ UNCHANGED <<handlers, senderValidator, outputEncoder, handleCalls,
                   lastHandle, apart, callers>>

\* MethodCheck letting GET through as well
MethodCheckGetAllowed(r) ==
    /\ req[r].pc = "idle"
    /\ \E m \in HttpMethods :
         LET rq == [req[r] EXCEPT !.method = m]
         IN  Set(r, IF m \notin {"POST", "GET"}
                    THEN Fail(rq, "method", StatusMethodNotAllowed,
                              "method not allowed", "")
                    ELSE Advance(rq, "method", "envelope"))

\* the method check of an arriving request
MethodCheck(r) ==
    /\ req[r].pc = "idle"
    /\ \E m \in HttpMethods :
         LET rq == [req[r] EXCEPT !.method = m]
         IN  Set(r, IF m # "POST"
                    THEN Fail(rq, "method", StatusMethodNotAllowed,
                              "method not allowed", "")
                    ELSE Advance(rq, "method", "envelope"))

\* io.ReadAll and json.Unmarshal
EnvelopeDecode(r) ==
    /\ req[r].pc = "envelope"
    /\ \E b \in Bodies :
         Set(r, CASE b.kind = "unreadable" ->
                       Fail(req[r], "envelope", StatusBadRequest,
                            "failed to read request body", "")
                  [] b.kind = "malformed" ->
                       Fail(req[r], "envelope", StatusBadRequest,
                            "failed to parse request body", "")
                  [] b.kind = "object" ->
                       Advance([req[r] EXCEPT
                                  !.ccipReq = <<[Data |-> b.data,
                                                 Sender |-> b.sender]>>],
                               "envelope", "validate"))

\* ValidatorCalled without the check of the sender
ValidatorCalledAnySender(validator, ccipReq) == validator.kind # "nil"

\* whether ServeHTTP calls the validator for this envelope
ValidatorCalled(validator, ccipReq) ==
    validator.kind # "nil" /\ ccipReq.Sender # <<>>

SenderValidation(r) ==
    /\ req[r].pc = "validate"
    /\ LET ccipReq == req[r].ccipReq[1]
           senderAddr == HexToAddress(ccipReq.Sender)
           err == CallValidator(senderValidator, senderAddr)
           called == [req[r] EXCEPT !.validatorCalls = @ + 1,
                                    !.validatorErr = err]
       IN  Set(r, IF ValidatorCalled(senderValidator, ccipReq)
                  THEN IF err # NoErr
                       THEN Fail(called, "validator", StatusUnauthorized,
                                 "unauthorized sender", "")
                       ELSE Advance(called, "validator", "hexdecode")
                  ELSE [req[r] EXCEPT !.pc = "hexdecode"])

SelectorLen == 4

\* hexutil.Decode over the data strings the requests carry
DecodedData == [data \in DataStrings |-> hexutilDecode(data)]

\* HexDecode returning on short data without an answer
HexDecodeShortNoAnswer(r) ==
    /\ req[r].pc = "hexdecode"
    /\ LET d == DecodedData[req[r].ccipReq[1].Data]
       IN  Set(r, IF d.err # NoErr
                  THEN Fail(req[r], "hexdecode", StatusBadRequest,
                            "invalid data field", "")
                  ELSE IF Len(d.val) < SelectorLen
                  THEN [req[r] EXCEPT !.pc = "done",
                                      !.steps = Append(@, "hexdecode")]
                  ELSE Advance([req[r] EXCEPT !.data = d.val],
                               "hexdecode", "lookup"))

HexDecode(r) ==
    /\ req[r].pc = "hexdecode"
    /\ LET d == DecodedData[req[r].ccipReq[1].Data]
       IN  Set(r, IF d.err # NoErr
                  THEN Fail(req[r], "hexdecode", StatusBadRequest,
                            "invalid data field", "")
                  ELSE IF Len(d.val) < SelectorLen
                  THEN Fail(req[r], "hexdecode", StatusBadRequest,
                            "data field too short", "")
                  ELSE Advance([req[r] EXCEPT !.data = d.val],
                               "hexdecode", "lookup"))

\* SelectorLookup taking the entry out of the table when it is found
SelectorLookupOnce(r) ==
    /\ req[r].pc = "lookup"
    /\ LET byte4Sig == Uint32(SubSeq(req[r].data, 1, SelectorLen))
       IN  IF byte4Sig \in DOMAIN handlers
           THEN /\ req' = [req EXCEPT
                             ![r] = Advance([req[r] EXCEPT
                                               !.registered =
                                                 <<handlers[byte4Sig]>>],
                                            "lookup", "unpack")]
                /\ handlers' = [k \in DOMAIN handlers \ {byte4Sig} |->
                                  handlers[k]]
           ELSE /\ req' = [req EXCEPT
                             ![r] = Fail(req[r], "lookup", StatusNotFound,
                                         "function not found", "")]
                /\ UNCHANGED handlers
    /\ UNCHANGED <<senderValidator, outputEncoder, handleCalls, lastHandle,
                   apart, callers>>

\* registered, ok := r.handlers[byte4Sig]
MapLookup(m, key) == IF key \in DOMAIN m THEN <<m[key]>> ELSE <<>>

SelectorLookup(r) ==
    /\ req[r].pc = "lookup"
    /\ LET byte4Sig == Uint32(SubSeq(req[r].data, 1, SelectorLen))
           found == MapLookup(handlers, byte4Sig)
       IN  Set(r, IF found = <<>>
                  THEN Fail(req[r], "lookup", StatusNotFound,
                            "function not found", "")
                  ELSE Advance([req[r] EXCEPT !.registered = found],
                               "lookup", "unpack"))

\* Bind with the first decoded value in every Variable
BindFirstValue(method, inputs) ==
    [i \in 1..Len(inputs) |->
       [Name |-> method.Inputs[i].Name, Value |-> inputs[1]]]

\* the bind loop: a Variable per decoded value, named after the input
\* of the same index
Bind(method, inputs) ==
    [i \in 1..Len(inputs) |->
       [Name |-> method.Inputs[i].Name, Value |-> inputs[i]]]

InputDecode(r) ==
    /\ req[r].pc = "unpack"
    /\ LET method == req[r].registered[1].method
           inputs == UnpackValues(method.Inputs, Drop(req[r].data, SelectorLen))
       IN  Set(r, IF inputs.err # NoErr
                  THEN Fail(req[r], "unpack", StatusBadRequest,
                            "failed to unpack input parameters", "")
                  ELSE Advance([req[r] EXCEPT
                                  !.input = Bind(method, inputs.val)],
                               "unpack", "invoke"))

\* HandlerInvoke without the check of the handler's error
HandlerInvokeNoErrCheck(r) ==
    /\ req[r].pc = "invoke"
    /\ \E res \in HandlerResults :
         Set(r, Advance([req[r] EXCEPT
                           !.result = <<res>>, !.handlerCalls = @ + 1,
                           !.invoked = req[r].registered[1].handler],
                        "handler", "encode"))

\* outputs, err := registered.handler(ccipReadReq)
HandlerInvoke(r) ==
    /\ req[r].pc = "invoke"
    /\ \E res \in HandlerResults :
         LET rq == [req[r] EXCEPT !.result = <<res>>, !.handlerCalls = @ + 1,
                                  !.invoked = req[r].registered[1].handler]
         IN  Set(r, IF res.err # NoErr
                    THEN Fail(rq, "handler", StatusInternalServerError,
                              "handler error: ", res.err)
                    ELSE Advance(rq, "handler", "encode"))

\* EncodeOutputs against the descriptor's inputs
EncodeOutputsAgainstInputs(encoder, method, outputs) ==
    PackValues(method.Inputs, outputs)

\* the bytes of the response: registered.method.Outputs.PackValues(outputs)
EncodeOutputs(encoder, method, outputs) == PackValues(method.Outputs, outputs)

OutputEncode(r) ==
    /\ req[r].pc = "encode"
    /\ LET method == req[r].registered[1].method
           outputData == EncodeOutputs(outputEncoder, method,
                                       req[r].result[1].outputs)
       IN  Set(r, IF outputData.err # NoErr
                  THEN Fail(req[r], "pack", StatusInternalServerError,
                            "failed to pack output parameters", "")
                  ELSE Advance([req[r] EXCEPT !.outputData = outputData.val],
                               "pack", "respond"))

\* json.Marshal of {Data string} does not fail; WriteHeader(200) and Write
ResponseEnvelope(r) ==
    /\ req[r].pc = "respond"
    /\ Set(r, [req[r] EXCEPT
                 !.pc = "done", !.status = StatusOK, !.writes = @ + 1,
                 !.body = <<[kind |-> "json",
                             Data |-> hexutilEncode(req[r].outputData)]>>,
                 !.steps = Append(@, "respond")])

(***************************************************************************)
(* CCIPReadRequest.Var on a request bound as ServeHTTP binds it: the        *)
(* arguments are decoded from words against the inputs of a parsed         *)
(* descriptor, then a handler looks names up.                              *)
(***************************************************************************)
\* the value Var returns with false
NilAny == [kind |-> "nil"]

\* Var with the loop running to its end: the last Variable of that name
RECURSIVE VarLastFrom(_, _, _)
VarLastFrom(input, name, i) ==
    IF i < 1 THEN [value |-> NilAny, found |-> FALSE]
    ELSE IF input[i].Name = name
         THEN [value |-> input[i].Value, found |-> TRUE]
         ELSE VarLastFrom(input, name, i - 1)

VarLast(request, name) == VarLastFrom(request.Input, name, Len(request.Input))

\* for _, v := range r.Input: the first Variable with v.Name == name
RECURSIVE VarFrom(_, _, _)
VarFrom(input, name, i) ==
    IF i > Len(input) THEN [value |-> NilAny, found |-> FALSE]
    ELSE IF input[i].Name = name
         THEN [value |-> input[i].Value, found |-> TRUE]
         ELSE VarFrom(input, name, i + 1)

\* CCIPReadRequest.Var
Var(request, name) == VarFrom(request.Input, name, 1)

RECURSIVE Concat(_)
Concat(words) ==
    IF words = <<>> THEN <<>> ELSE words[1] \o Concat(Tail(words))

\* UnpackValues and the bind loop of ServeHTTP for one descriptor
BindRequest(str, words) ==
    /\ binding = NoBinding
    /\ ParsedInputs[str].err = NoErr
    /\ LET method == ParsedInputs[str].method
           inputs == UnpackValues(method.Inputs, Concat(words))
       IN  /\ Len(words) = Len(method.Inputs)
           /\ inputs.err = NoErr
           /\ binding' = [method |-> <<method>>, values |-> inputs.val,
                          Input |-> Bind(method, inputs.val),
                          lookups |-> <<>>]
    /\ UNCHANGED <<handlers, senderValidator, outputEncoder, handleCalls,
                   lastHandle, req, parses, callers>>

\* request.Var(name), as a handler calls it
VarCall(name) ==
    /\ binding # NoBinding
    /\ Len(binding.lookups) < MaxLookups
    /\ LET got == Var(binding, name)
       IN  binding' = [binding EXCEPT
                         !.lookups = Append(@, [name |-> name,
                                                value |-> got.value,
                                                found |-> got.found])]
    /\ UNCHANGED <<handlers, senderValidator, outputEncoder, handleCalls,
                   lastHandle, req, parses, callers>>

\* a resolver without options, serving nothing
InitApart ==
    /\ Init
    /\ senderValidator = NilFunc
    /\ outputEncoder = NilFunc

(***************************************************************************)
(* ParseFunction called on its own.  A call is recorded with its string,   *)
(* the parts the string was written from (none for a malformed text) and   *)
(* what ParseFunction returned.                                            *)
(***************************************************************************)
Parse(str, parts) ==
    /\ Len(parses) < MaxParses
    /\ parses' = Append(parses, [str |-> str, parts |-> parts,
                                 res |-> ParsedInputs[str]])
    /\ UNCHANGED <<handlers, senderValidator, outputEncoder, handleCalls,
                   lastHandle, req, binding, callers>>

\* ParseFunction(str) for a signature of the documented format
ParseSignature(d) == Parse(SigText(d), <<d>>)

\* ParseFunction(str) for another text
ParseMalformed(str) == Parse(str, <<>>)

NextParse ==
    \/ \E d \in SigParts : ParseSignature(d)
    \/ \E str \in MalformedSigs : ParseMalformed(str)

SpecParse == InitApart /\ [][NextParse]_vars

NextBind ==
    \/ \E str \in ParseInputs, n \in 0..MaxArgs :
         \E words \in [1..n -> ArgWords] : BindRequest(str, words)
    \/ \E name \in VarNames : VarCall(name)

SpecBind == InitApart /\ [][NextBind]_vars

(***************************************************************************)
(* Handle called from goroutines of its own while requests are served.     *)
(* The resolver has no lock (its fields are the map and the two options),  *)
(* and a Go map store or lookup is not one atomic step: Handle is inside   *)
(* the store from HandleEnter to HandleStore, ServeHTTP inside the lookup  *)
(* from LookupEnter to LookupReturn.  With a store in progress the runtime *)
(* may stop the process (concurrent map read and map write, concurrent map *)
(* writes), and a lookup may or may not see the entry being stored.        *)
(***************************************************************************)
Writing(c) == callers[c].pc = "store"
Reading(r) == req[r].pc = "reading"

\* Handle up to the store: ParseFunction, and the return of its error
HandleEnter(c, sig, handler) ==
    /\ callers[c].pc = "idle"
    /\ handleCalls < MaxHandleCalls
    /\ handleCalls' = handleCalls + 1
    /\ IF ParsedSigs[sig].err # NoErr
       THEN /\ lastHandle' = [sig |-> sig, handler |-> handler,
                              err |-> ParsedSigs[sig].err]
            /\ UNCHANGED callers
       ELSE /\ callers' = [callers EXCEPT
                             ![c] = [pc |-> "store", sig |-> sig,
                                     handler |-> handler]]
            /\ UNCHANGED lastHandle
    /\ UNCHANGED <<handlers, senderValidator, outputEncoder, req, apart>>

\* the store completes and Handle returns nil
HandleStore(c) ==
    /\ Writing(c)
    /\ handlers' = Register(handlers, ParsedSigs[callers[c].sig].method,
                            callers[c].handler)
    /\ lastHandle' = [sig |-> callers[c].sig, handler |-> callers[c].handler,
                      err |-> NoErr]
    /\ callers' = [callers EXCEPT ![c] = IdleCaller]
    /\ UNCHANGED <<senderValidator, outputEncoder, handleCalls, req, apart>>

\* ServeHTTP enters the map lookup
LookupEnter(r) ==
    /\ req[r].pc = "lookup"
    /\ Set(r, [req[r] EXCEPT !.pc = "reading"])

\* the maps a lookup may read: the table, or the table with an entry that
\* is being stored
TablesSeen ==
    {handlers} \cup
    {Register(handlers, ParsedSigs[callers[c].sig].method,
              callers[c].handler) : c \in {w \in Callers : Writing(w)}}

\* the lookup returns
LookupReturn(r) ==
    /\ Reading(r)
    /\ \E table \in TablesSeen :
         LET byte4Sig == Uint32(SubSeq(req[r].data, 1, SelectorLen))
             found == MapLookup(table, byte4Sig)
         IN  Set(r, IF found = <<>>
                    THEN Fail(req[r], "lookup", StatusNotFound,
                              "function not found", "")
                    ELSE Advance([req[r] EXCEPT !.registered = found],
                                 "lookup", "unpack"))

\* the runtime detects the unsynchronised map access and ends the process
RaceFatal ==
    /\ \E c \in Callers :
         /\ Writing(c)
         /\ \/ \E r \in Reqs : Reading(r)
            \/ \E d \in Callers \ {c} : Writing(d)
    /\ req' = [r \in Reqs |-> [req[r] EXCEPT !.pc = "fatal"]]
    /\ callers' = [c \in Callers |-> [callers[c] EXCEPT !.pc = "fatal"]]
    /\ UNCHANGED <<handlers, senderValidator, outputEncoder, handleCalls,
                   lastHandle, apart>>

NextRace ==
    \/ \E c \in Callers, sig \in Sigs, handler \in HandlerIds :
         HandleEnter(c, sig, handler)
    \/ \E c \in Callers : HandleStore(c)
    \/ RaceFatal
    \/ \E r \in Reqs : MethodCheck(r)
    \/ \E r \in Reqs : EnvelopeDecode(r)
    \/ \E r \in Reqs : SenderValidation(r)
    \/ \E r \in Reqs : HexDecode(r)
    \/ \E r \in Reqs : LookupEnter(r)
    \/ \E r \in Reqs : LookupReturn(r)
    \/ \E r \in Reqs : InputDecode(r)
    \/ \E r \in Reqs : HandlerInvoke(r)
    \/ \E r \in Reqs : OutputEncode(r)
    \/ \E r \in Reqs : ResponseEnvelope(r)

SpecRace == InitApart /\ [][NextRace]_vars

(***************************************************************************)
(* Two requests served by one resolver whose handlers are registered       *)
(* before serving begins, as the README's main does, and whose handlers    *)
(* are deterministic: what a handler returns is a function of the request  *)
(* it is given.                                                            *)
(***************************************************************************)
Serving == {"r1", "r2"}

\* hA resolves the one name it knows, hB answers the same to every request
Answer(handler, input) ==
    IF handler = "hB"
    THEN [err |-> NoErr, outputs |-> <<GoBool(TRUE), GoBig(<<5>>)>>]
    ELSE IF input # <<>> /\ input[1].Value = GoArray(Bytes32One)
         THEN [err |-> NoErr, outputs |-> <<GoArray(AddrA)>>]
         ELSE [err |-> ErrLookupFailed, outputs |-> <<>>]

\* the Handle calls of main, in order
SetupCalls ==
    <<[sig |-> SigAddr, handler |-> "hA"], [sig |-> SigOk, handler |-> "hB"]>>

\* the next Handle call of main: no request has arrived yet
HandleAtSetup ==
    /\ \A r \in Serving : req[r].pc = "idle"
    /\ handleCalls < Len(SetupCalls)
    /\ Handle(SetupCalls[handleCalls + 1].sig,
              SetupCalls[handleCalls + 1].handler)

\* the handler call, with a deterministic handler
HandlerAnswers(r) ==
    /\ HandlerInvoke(r)
    /\ req'[r].result
         = <<Answer(req[r].registered[1].handler, req[r].input)>>

InitServing ==
    /\ handlers = <<>>
    /\ senderValidator = GatewayValidator({AddrA})
    /\ outputEncoder = NilFunc
    /\ handleCalls = 0
    /\ lastHandle = [sig |-> <<>>, handler |-> "", err |-> NoErr]
    /\ req = [r \in Serving |-> IdleReq]
    /\ parses = <<>>
    /\ binding = NoBinding
    /\ callers = [c \in Callers |-> IdleCaller]

NextServing ==
    \/ HandleAtSetup
    \/ \E r \in Serving : MethodCheck(r)
    \/ \E r \in Serving : EnvelopeDecode(r)
    \/ \E r \in Serving : SenderValidation(r)
    \/ \E r \in Serving : HexDecode(r)
    \/ \E r \in Serving : SelectorLookup(r)
    \/ \E r \in Serving : InputDecode(r)
    \/ \E r \in Serving : HandlerAnswers(r)
    \/ \E r \in Serving : OutputEncode(r)
    \/ \E r \in Serving : ResponseEnvelope(r)

SpecServing == InitServing /\ [][NextServing]_vars

(***************************************************************************)
(* One request served to its end while main makes its Handle calls, under  *)
(* any configuration.  The goroutine of a request that has arrived keeps   *)
(* running: ServeHTTP is straight-line code, and the validator and the     *)
(* handler are taken to return.                                            *)
(***************************************************************************)
\* the next Handle call of main, whenever it comes
HandleOfMain ==
    /\ handleCalls < Len(SetupCalls)
    /\ Handle(SetupCalls[handleCalls + 1].sig,
              SetupCalls[handleCalls + 1].handler)

\* what the goroutine of a request that has arrived does next
ServeStep(r) ==
    \/ EnvelopeDecode(r)
    \/ SenderValidation(r)
    \/ HexDecode(r)
    \/ SelectorLookup(r)
    \/ InputDecode(r)
    \/ HandlerInvoke(r)
    \/ OutputEncode(r)
    \/ ResponseEnvelope(r)

NextFair ==
    \/ HandleOfMain
    \/ \E r \in Reqs : MethodCheck(r)
    \/ \E r \in Reqs : ServeStep(r)

SpecFair ==
    Init /\ [][NextFair]_vars /\ \A r \in Reqs : WF_vars(ServeStep(r))

Next ==
    \/ \E sig \in Sigs, handler \in HandlerIds : Handle(sig, handler)
    \/ \E r \in Reqs : MethodCheck(r)
    \/ \E r \in Reqs : EnvelopeDecode(r)
    \/ \E r \in Reqs : SenderValidation(r)
    \/ \E r \in Reqs : HexDecode(r)
    \/ \E r \in Reqs : SelectorLookup(r)
    \/ \E r \in Reqs : InputDecode(r)
    \/ \E r \in Reqs : HandlerInvoke(r)
    \/ \E r \in Reqs : OutputEncode(r)
    \/ \E r \in Reqs : ResponseEnvelope(r)

Spec == Init /\ [][Next]_vars

(***************************************************************************)
(* Properties.                                                             *)
(***************************************************************************)
\* the data strings that are not hex or decode to fewer than four bytes, and
\* the well-formed calls of addr(bytes32) and ok(bool)
BadDataStrings == {<<>>, DataNoPrefix, DataShort}
CallDataStrings == {DataAddr, DataOk}

Parsed(rq) == rq.ccipReq # <<>>
Done(rq) == rq.pc = "done"
Ran(rq, step) == \E i \in 1..Len(rq.steps) : rq.steps[i] = step

\* C1: a Handle call whose signature yields a selector that is already in
\* the registry returns an error and leaves the registry as it was (the entry
\* stays bound to the first-registered descriptor and handler).
C1_DuplicateSelectorRejected ==
    [][\A sig \in Sigs :
         (/\ handleCalls' = handleCalls + 1
          /\ lastHandle'.sig = sig
          /\ ParsedSigs[sig].err = NoErr
          /\ Uint32(ParsedSigs[sig].method.ID) \in DOMAIN handlers)
         => (lastHandle'.err # NoErr /\ handlers' = handlers)]_vars

\* C2 as stated: hex decoding precedes sender validation: a POST request with
\* a parseable envelope whose data is not hex, or is shorter than four bytes,
\* ends with status 400 and the validator is never invoked for it.
C2_HexDecodeBeforeValidation ==
    \A r \in Reqs :
      (Parsed(req[r]) /\ req[r].ccipReq[1].Data \in BadDataStrings)
      => /\ req[r].validatorCalls = 0
         /\ Done(req[r]) => req[r].status = StatusBadRequest

\* C2 as amended: sender validation precedes hex decoding: such a request
\* ends with status 401 when a validator is configured, the sender is not
\* empty and the validator rejects it, and with status 400 otherwise; the
\* data is decoded only after the validator accepted or was not called, and
\* the handler is never invoked.
C2_ValidationBeforeHexDecode ==
    \A r \in Reqs :
      (Parsed(req[r]) /\ req[r].ccipReq[1].Data \in BadDataStrings)
      => LET called == /\ senderValidator.kind # "nil"
                       /\ req[r].ccipReq[1].Sender # <<>>
         IN  /\ req[r].handlerCalls = 0
             /\ req[r].pc \in {"validate", "hexdecode", "done"}
             /\ Ran(req[r], "hexdecode")
                  => /\ req[r].validatorCalls = IF called THEN 1 ELSE 0
                     /\ req[r].validatorErr = NoErr
             /\ Done(req[r])
                  => /\ req[r].status =
                          IF called /\ req[r].validatorErr # NoErr
                          THEN StatusUnauthorized ELSE StatusBadRequest
                     /\ req[r].status = StatusBadRequest
                          <=> Ran(req[r], "hexdecode")

\* a rejected sender with undecodable data: answered 401, the data untouched
C2_Witness ==
    \E r \in Reqs :
      /\ Done(req[r]) /\ Parsed(req[r])
      /\ req[r].ccipReq[1].Data = DataShort
      /\ req[r].validatorCalls = 1
      /\ req[r].status = StatusUnauthorized

\* the addresses Gateways(...) was given
IsGateway(validator, addr) ==
    \E i \in 1..Len(validator.gateways) : validator.gateways[i] = addr

\* C3: with Gateways(S), a well-formed call that fails for no other reason
\* (no 400, no 404) and carries a sender outside S ends with status 401 and
\* no handler call; one carrying a sender of S passes sender validation.
C3_GatewaysRejectNonMembers ==
    \A r \in Reqs :
      (/\ senderValidator.kind = "gateways"
       /\ Parsed(req[r])
       /\ req[r].ccipReq[1].Data \in CallDataStrings
       /\ req[r].ccipReq[1].Sender # <<>>
       /\ req[r].status \notin {StatusBadRequest, StatusNotFound})
      => IF IsGateway(senderValidator, HexToAddress(req[r].ccipReq[1].Sender))
         THEN req[r].status # StatusUnauthorized
         ELSE /\ req[r].handlerCalls = 0
              /\ Done(req[r]) => req[r].status = StatusUnauthorized

\* C4: with an output encoder configured, the response bytes of a request
\* whose handler returned without error come from the encoder: it is called,
\* and the default PackValues step is not run.
C4_OutputEncoderReplacesPack ==
    \A r \in Reqs :
      (/\ outputEncoder.kind # "nil"
       /\ req[r].result # <<>>
       /\ req[r].result[1].err = NoErr
       /\ req[r].pc \in {"respond", "done"})
      => (req[r].encoderCalls = 1 /\ ~Ran(req[r], "pack"))

\* C5: the sender validator is called for a request exactly when a validator
\* is configured and the request's sender is not empty; a rejection ends the
\* request with status 401, before the data is decoded and without a handler
\* call; without a validator or a sender the request goes on to the next step
\* as it does after an accepted sender.
C5_ValidatorCalledIffConfiguredAndSender ==
    \A r \in Reqs :
      LET rq == req[r]
          past == Parsed(rq) /\ rq.pc # "validate"
          wanted == /\ Parsed(rq)
                    /\ senderValidator.kind # "nil"
                    /\ rq.ccipReq[1].Sender # <<>>
      IN  /\ rq.validatorCalls = IF past /\ wanted THEN 1 ELSE 0
          /\ rq.validatorErr # NoErr
               => /\ rq.validatorCalls = 1
                  /\ Done(rq) /\ rq.status = StatusUnauthorized
                  /\ rq.handlerCalls = 0
                  /\ ~Ran(rq, "hexdecode")
          /\ rq.status = StatusUnauthorized => rq.validatorErr # NoErr
          /\ (past /\ rq.validatorErr = NoErr)
               => (rq.pc = "hexdecode" \/ Ran(rq, "hexdecode"))

\* a well-formed call from a sender the validator rejects
C5_Witness ==
    \E r \in Reqs :
      /\ Done(req[r]) /\ Parsed(req[r])
      /\ req[r].ccipReq[1].Data = DataAddr
      /\ req[r].ccipReq[1].Sender = SenderB
      /\ req[r].validatorErr = ErrUnauthorized
      /\ req[r].status = StatusUnauthorized

\* the steps of the pipeline, in order; the validator's is the optional one
PipelineOrder ==
    <<"method", "envelope", "validator", "hexdecode", "lookup", "unpack",
      "handler", "pack", "respond">>

RECURSIVE InOrder(_, _)
\* steps is a prefix of order, but for "validator", which may be left out
InOrder(steps, order) ==
    IF steps = <<>> THEN TRUE
    ELSE IF order = <<>> THEN FALSE
    ELSE IF steps[1] = order[1] THEN InOrder(Tail(steps), Tail(order))
    ELSE order[1] = "validator" /\ InOrder(steps, Tail(order))

\* C6: the handler is invoked at most once for a request, and only after the
\* method check, the envelope decode, the hex decode (of at least four
\* bytes), the sender validation, the selector lookup and the input decode
\* all succeeded; the steps run in order, each at most once, and once a
\* status is written no further step runs.
C6_HandlerAtMostOnceAfterAllSteps ==
    /\ [](\A r \in Reqs :
            LET rq == req[r]
            IN  /\ rq.handlerCalls <= 1
                /\ rq.writes <= 1
                /\ InOrder(rq.steps, PipelineOrder)
                /\ (rq.status # 0) <=> Done(rq)
                /\ rq.handlerCalls = 1
                     => /\ rq.method = "POST"
                        /\ Parsed(rq)
                        /\ rq.ccipReq[1].Data \in CallDataStrings
                        /\ Len(rq.data) >= SelectorLen
                        /\ rq.validatorErr = NoErr
                        /\ rq.registered # <<>>
                        /\ Len(rq.input) = Len(rq.registered[1].method.Inputs)
                        /\ SubSeq(rq.steps, Len(rq.steps) - 3, Len(rq.steps))
                              \in { <<"hexdecode", "lookup", "unpack", "handler">>,
                                    <<"unpack", "handler", "pack", "respond">>,
                                    <<"lookup", "unpack", "handler", "pack">> })
    /\ [][\A r \in Reqs : Done(req[r]) => req'[r] = req[r]]_vars

\* a request whose handler ran and that was then answered
C6_Witness ==
    \E r \in Reqs :
      /\ Done(req[r]) /\ req[r].handlerCalls = 1
      /\ req[r].steps = <<"method", "envelope", "validator", "hexdecode",
                          "lookup", "unpack", "handler", "pack", "respond">>

\* C7: the entry a request gets from the lookup is the one the registry holds
\* under the first four bytes of its data, its descriptor has those four
\* bytes as selector, and its handler is the one invoked; when the registry
\* holds no entry for those bytes the request ends with status 404 and no
\* handler call.
C7_DispatchBySelector ==
    /\ [](\A k \in DOMAIN handlers : Uint32(handlers[k].method.ID) = k)
    /\ [](\A r \in Reqs :
            LET rq == req[r]
            IN  /\ rq.registered # <<>>
                     => rq.registered[1].method.ID = SubSeq(rq.data, 1, SelectorLen)
                /\ rq.handlerCalls = 1
                     => rq.invoked = rq.registered[1].handler
                /\ rq.status = StatusNotFound
                     => (rq.handlerCalls = 0 /\ rq.registered = <<>>))
    /\ [][\A r \in Reqs :
            (req[r].pc = "lookup" /\ req'[r].pc # "lookup")
            => LET sel == SubSeq(req[r].data, 1, SelectorLen)
                   hit == {k \in DOMAIN handlers : handlers[k].method.ID = sel}
               IN  IF hit = {}
                   THEN /\ req'[r].status = StatusNotFound
                        /\ req'[r].pc = "done"
                   ELSE /\ \E k \in hit : req'[r].registered = <<handlers[k]>>
                        /\ req'[r].pc = "unpack"]_vars

\* both outcomes need a registry that holds an entry: a call dispatched to
\* the handler registered second, under a selector registered twice
C7_Witness ==
    \E r \in Reqs :
      /\ req[r].handlerCalls = 1
      /\ req[r].invoked = "hB"
      /\ SubSeq(req[r].data, 1, SelectorLen) = <<59, 59, 87, 222>>
      /\ handleCalls = 2

\* C8: when the handler returns, without error, a list whose length is not
\* the number of declared outputs, the request ends with status 500 (failed
\* to pack) and no 200 response is written.
C8_WrongArityIs500 ==
    \A r \in Reqs :
      LET rq == req[r]
      IN  (/\ rq.result # <<>>
           /\ rq.result[1].err = NoErr
           /\ Len(rq.result[1].outputs) # Len(rq.registered[1].method.Outputs))
          => /\ rq.pc \in {"encode", "done"}
             /\ rq.status \in {0, StatusInternalServerError}
             /\ Done(rq)
                  => /\ rq.status = StatusInternalServerError
                     /\ rq.body[1].kind = "text"
                     /\ rq.body[1].text = "failed to pack output parameters"
                     /\ ~Ran(rq, "respond")

\* the handler returned nil, nil for a function declared with one output
C8_Witness ==
    \E r \in Reqs :
      /\ Done(req[r])
      /\ req[r].result = <<[err |-> NoErr, outputs |-> <<>>]>>
      /\ Len(req[r].registered[1].method.Outputs) = 1
      /\ req[r].status = StatusInternalServerError

\* C9: when the handler returns an error the request ends with status 500,
\* the body carries the handler's message, and neither the output encode nor
\* the response envelope step runs.
C9_HandlerErrorIs500 ==
    \A r \in Reqs :
      LET rq == req[r]
      IN  (rq.result # <<>> /\ rq.result[1].err # NoErr)
          => /\ Done(rq)
             /\ rq.status = StatusInternalServerError
             /\ rq.writes = 1
             /\ rq.body = <<[kind |-> "text", text |-> "handler error: ",
                             detail |-> rq.result[1].err]>>
             /\ ~Ran(rq, "pack") /\ ~Ran(rq, "respond")
             /\ rq.outputData = <<>>

C9_Witness ==
    \E r \in Reqs :
      /\ Done(req[r])
      /\ req[r].handlerCalls = 1
      /\ req[r].result[1].err = ErrLookupFailed
      /\ req[r].body[1].detail = ErrLookupFailed

\* every step of the pipeline succeeded for the request
AllStepsSucceeded(rq) ==
    /\ rq.method = "POST"
    /\ Parsed(rq)
    /\ rq.validatorErr = NoErr
    /\ hexutilDecode(rq.ccipReq[1].Data).err = NoErr
    /\ Len(hexutilDecode(rq.ccipReq[1].Data).val) >= SelectorLen
    /\ rq.registered # <<>>
    /\ UnpackValues(rq.registered[1].method.Inputs,
                    Drop(rq.data, SelectorLen)).err = NoErr
    /\ rq.result # <<>>
    /\ rq.result[1].err = NoErr
    /\ PackValues(rq.registered[1].method.Outputs,
                  rq.result[1].outputs).err = NoErr

\* C10: a request ends with status 200 exactly when every step succeeded,
\* and then the data of the response body is the 0x-prefixed hex of the
\* handler's values packed, in order, against the outputs of the descriptor
\* looked up for the request.
C10_Status200IffAllSteps ==
    \A r \in Reqs :
      LET rq == req[r]
      IN  /\ ~Done(rq) => rq.status = 0
          /\ Done(rq)
               => /\ (rq.status = StatusOK) <=> AllStepsSucceeded(rq)
                  /\ rq.status = StatusOK
                       => /\ rq.body[1].kind = "json"
                          /\ has0xPrefix(rq.body[1].Data)
                          /\ hexDecodeString(Drop(rq.body[1].Data, 2)) =
                               [err |-> NoErr,
                                val |-> PackValues(
                                          rq.registered[1].method.Outputs,
                                          rq.result[1].outputs).val]

\* addr(bytes32) answered with the address 0x00..0011: 0x, 62 zeros, 11
C10_Witness ==
    \E r \in Reqs :
      /\ Done(req[r]) /\ req[r].status = StatusOK
      /\ req[r].result[1].outputs = <<GoArray(AddrA)>>
      /\ req[r].body[1].Data =
           <<"0", "x">> \o [i \in 1..62 |-> "0"] \o <<"1", "1">>

(***************************************************************************)
(* The bound request and Var (SpecBind).                                   *)
(***************************************************************************)
\* the Var calls made so far are the declared names of the inputs, in order
LookedUpInOrder ==
    /\ binding # NoBinding
    /\ Len(binding.lookups) = Len(binding.method[1].Inputs)
    /\ \A i \in 1..Len(binding.lookups) :
         binding.lookups[i].name = binding.method[1].Inputs[i].Name

\* every one of them returned the decoded value of its own position
ReturnedTheValues ==
    \A i \in 1..Len(binding.lookups) :
       /\ binding.lookups[i].found
       /\ binding.lookups[i].value = binding.values[i]

DistinctInputNames ==
    \A i, j \in 1..Len(binding.method[1].Inputs) :
       i # j => binding.method[1].Inputs[i].Name
                  # binding.method[1].Inputs[j].Name

\* C11, as stated: for every descriptor and every decoded value list of its
\* length, binding and then calling Var with each input's declared name, in
\* declaration order, returns the values in order.
C11_RoundTripEveryDescriptor == LookedUpInOrder => ReturnedTheValues

\* C11, amended: the same for every descriptor whose input names, defaults
\* included, are pairwise distinct.
C11_RoundTripDistinctNames ==
    (LookedUpInOrder /\ DistinctInputNames) => ReturnedTheValues

\* two inputs of different names and different values, both looked up
C11_Witness ==
    /\ LookedUpInOrder
    /\ DistinctInputNames
    /\ Len(binding.values) = 2
    /\ binding.values[1] # binding.values[2]

\* the indices of the bound inputs called name
Named(name) == {i \in 1..Len(binding.Input) : binding.Input[i].Name = name}

\* C12: Var(name) returns the value of the lowest-index bound input called
\* name with found = true, also when several inputs have that name; with no
\* such input it returns found = false; and it leaves the request as it was.
C12_VarFirstMatchOrNotFound ==
    /\ [](\A k \in 1..Len(binding.lookups) :
            LET call == binding.lookups[k]
                at == Named(call.name)
            IN  IF at = {}
                THEN ~call.found /\ call.value = NilAny
                ELSE /\ call.found
                     /\ \E i \in at :
                          /\ \A j \in at : i <= j
                          /\ call.value = binding.Input[i].Value)
    /\ [][binding # NoBinding =>
            /\ binding'.Input = binding.Input
            /\ binding'.method = binding.method
            /\ binding'.values = binding.values]_vars

\* a name bound twice to different values was looked up, then an absent one
C12_Witness ==
    /\ Len(binding.lookups) = 2
    /\ Cardinality(Named(binding.lookups[1].name)) = 2
    /\ binding.Input[1].Value # binding.Input[2].Value
    /\ binding.lookups[1].found
    /\ Named(binding.lookups[2].name) = {}
    /\ ~binding.lookups[2].found

(***************************************************************************)
(* ParseFunction (SpecParse).                                              *)
(***************************************************************************)
\* the entries of a list that are parameters
RECURSIVE Params(_)
Params(l) ==
    IF l = <<>> THEN <<>>
    ELSE IF l[1] = EmptyEntry THEN Params(Tail(l))
    ELSE <<l[1]>> \o Params(Tail(l))

\* a call that parsed a signature of the documented format
ParsedOk(call) == call.parts # <<>> /\ call.res.err = NoErr

\* C13, as stated: in a successfully parsed signature every parameter
\* written without a name is named by the letter of its zero-based position
\* in the whole parameter list, the inputs followed by the outputs.
C13_DefaultNameByPositionInWholeList ==
    \A k \in 1..Len(parses) :
       ParsedOk(parses[k]) =>
         LET d == parses[k].parts[1]
             written == Params(d.inputs) \o Params(d.outputs)
             got == parses[k].res.method.Inputs \o parses[k].res.method.Outputs
         IN  /\ Len(got) = Len(written)
             /\ \A p \in 1..Len(written) :
                  written[p].name = <<>> => got[p].Name = <<paramNames[p]>>

\* the parameters parsed from the entries of a list, entry by entry
LettersByEntry(list, args) ==
    /\ Len(args) = Len(Params(list))
    /\ \A i \in 1..Len(list) :
         (list[i] # EmptyEntry /\ list[i].name = <<>>) =>
            args[Len(Params(SubSeq(list, 1, i)))].Name = <<paramNames[i]>>

\* C13, amended: every parameter written without a name is named by the
\* letter of the zero-based index of its entry among the comma-separated
\* entries of its own list, empty entries counted; the index starts again
\* at zero for the output list.
C13_DefaultNameByEntryInOwnList ==
    \A k \in 1..Len(parses) :
       ParsedOk(parses[k]) =>
         /\ LettersByEntry(parses[k].parts[1].inputs,
                           parses[k].res.method.Inputs)
         /\ LettersByEntry(parses[k].parts[1].outputs,
                           parses[k].res.method.Outputs)

\* parsed: unnamed inputs around an empty entry, and two unnamed outputs
C13_Witness ==
    \E k \in 1..Len(parses) :
       /\ ParsedOk(parses[k])
       /\ parses[k].parts[1].inputs
            = <<Unnamed(TBool), EmptyEntry, Unnamed(TUint256)>>
       /\ Len(parses[k].parts[1].outputs) = 2
       /\ parses[k].res.method.Inputs[2].Name = <<"c">>
       /\ parses[k].res.method.Outputs[2].Name = <<"b">>

\* the types of the parameters of a list, in order
TypesOf(list) == [i \in 1..Len(Params(list)) |-> Params(list)[i].type]

\* C14: two signatures that parse and have the same function name and the
\* same ordered input types have the same selector, hence the same key in
\* the registry, whatever their parameter names, mutability and outputs.
C14_SelectorOfNameAndInputTypes ==
    \A j, k \in 1..Len(parses) :
       (/\ ParsedOk(parses[j])
        /\ ParsedOk(parses[k])
        /\ parses[j].parts[1].name = parses[k].parts[1].name
        /\ TypesOf(parses[j].parts[1].inputs)
             = TypesOf(parses[k].parts[1].inputs))
       => /\ parses[j].res.method.ID = parses[k].res.method.ID
          /\ Uint32(parses[j].res.method.ID)
               = Uint32(parses[k].res.method.ID)

\* two parsed signatures of one name and one list of input types that
\* differ in the names of the inputs, the mutability and the outputs
C14_Witness ==
    /\ Len(parses) = 2
    /\ ParsedOk(parses[1])
    /\ ParsedOk(parses[2])
    /\ parses[1].parts[1].name = parses[2].parts[1].name
    /\ TypesOf(parses[1].parts[1].inputs) = <<TBool, TUint256>>
    /\ TypesOf(parses[2].parts[1].inputs) = <<TBool, TUint256>>
    /\ parses[1].res.method.Inputs[1].Name # parses[2].res.method.Inputs[1].Name
    /\ parses[1].parts[1].mutability # parses[2].parts[1].mutability
    /\ parses[1].parts[1].outputs # parses[2].parts[1].outputs
    /\ parses[1].res.method.ID = parses[2].res.method.ID

\* C15: ParseFunction fails with the invalid-signature error for every
\* string that is not, as a whole, a signature of the grammar: a missing
\* keyword, unbalanced parentheses, another mutability, text around it.
C15_MalformedRejected ==
    \A k \in 1..Len(parses) :
       parses[k].str \in MalformedSigs =>
          parses[k].res.err = ErrInvalidFunctionSignature

\* C16: ParseFunction accepts every signature of the grammar whose name is
\* a letter followed by letters, digits and underscores and whose types are
\* valid, and the descriptor has that name.
C16_ConformingAccepted ==
    \A k \in 1..Len(parses) :
       parses[k].parts # <<>> =>
          /\ parses[k].res.err = NoErr
          /\ parses[k].res.method.Name = parses[k].parts[1].name

(***************************************************************************)
(* Handle and the method check (Spec).                                     *)
(***************************************************************************)
\* the signatures of Sigs that do not parse, each with the error of
\* ParseFunction
UnparsableSigs == {SigNoKeyword, SigBadFormat, SigBadType}

ErrorOf(sig) ==
    IF sig = SigNoKeyword THEN ErrInvalidFunctionSignature
    ELSE ErrInputParameters

\* C17: a Handle call whose signature does not parse (invalid signature,
\* malformed parameter entry, invalid parameter type) returns that error and
\* leaves the registry, the configuration and every request as they were.
C17_FailedHandleChangesNothing ==
    [][(handleCalls' # handleCalls /\ lastHandle'.sig \in UnparsableSigs) =>
         /\ lastHandle'.err = ErrorOf(lastHandle'.sig)
         /\ handlers' = handlers
         /\ senderValidator' = senderValidator
         /\ outputEncoder' = outputEncoder
         /\ req' = req]_vars

\* a registry with an entry has seen a Handle call fail on a malformed
\* parameter entry
C17_Witness ==
    /\ lastHandle.sig = SigBadFormat
    /\ lastHandle.err = ErrInputParameters
    /\ handleCalls = 2
    /\ DOMAIN handlers # {}

\* C18: a request whose method is not POST ends with 405 at the method
\* check: the body is not read or decoded, and neither the validator nor a
\* handler nor the output encoding runs.
C18_NonPostIs405 ==
    \A r \in Reqs :
       req[r].method \in HttpMethods \ {"POST"} =>
          /\ Done(req[r])
          /\ req[r].status = StatusMethodNotAllowed
          /\ req[r].writes = 1
          /\ req[r].steps = <<"method">>
          /\ req[r].ccipReq = <<>>
          /\ req[r].data = <<>>
          /\ req[r].validatorCalls = 0
          /\ req[r].handlerCalls = 0
          /\ req[r].encoderCalls = 0

\* a GET request answered 405 by a resolver with a validator and a handler
C18_Witness ==
    \E r \in Reqs :
       /\ req[r].method = "GET"
       /\ req[r].status = StatusMethodNotAllowed
       /\ senderValidator # NilFunc
       /\ DOMAIN handlers # {}

(***************************************************************************)
(* The selector table under concurrent Handle calls (SpecRace).            *)
(***************************************************************************)
\* C19: access to the selector table is guarded: a Handle store is never in
\* progress together with a ServeHTTP lookup or with another Handle store.
C19_TableAccessGuarded ==
    \A c \in Callers :
       Writing(c) =>
          /\ \A r \in Reqs : ~Reading(r)
          /\ \A d \in Callers \ {c} : ~Writing(d)

(***************************************************************************)
(* Requests beside each other (SpecServing).                               *)
(***************************************************************************)
\* two requests that were sent the same thing: the same method and, where
\* the body was read and parsed, the same envelope
SameRequest(p, q) ==
    /\ p.method = q.method
    /\ p.method # ""
    /\ p.method = "POST" => (Parsed(p) /\ Parsed(q) /\ p.ccipReq = q.ccipReq)

\* C20: no step of ServeHTTP changes the registry, the validator or the
\* encoder, whether the request succeeds or fails; and with deterministic
\* handlers two requests that were sent the same thing end the same,
\* whatever was served before them or between their steps.
C20_ServeHTTPChangesNoResolverState ==
    /\ [][req' # req =>
            /\ handlers' = handlers
            /\ senderValidator' = senderValidator
            /\ outputEncoder' = outputEncoder]_vars
    /\ [](\A r, q \in Serving :
            (Done(req[r]) /\ Done(req[q]) /\ SameRequest(req[r], req[q])) =>
               /\ req[r].status = req[q].status
               /\ req[r].body = req[q].body
               /\ req[r].invoked = req[q].invoked
               /\ req[r].steps = req[q].steps)

\* the same call sent twice, its handler called for each, both answered 200
C20_Witness ==
    /\ Done(req["r1"])
    /\ Done(req["r2"])
    /\ SameRequest(req["r1"], req["r2"])
    /\ req["r1"].status = StatusOK
    /\ req["r2"].status = StatusOK
    /\ req["r1"].handlerCalls = 1
    /\ req["r2"].handlerCalls = 1

(***************************************************************************)
(* The end of a request (SpecFair).                                        *)
(***************************************************************************)
TerminalStatuses ==
    {StatusOK, StatusBadRequest, StatusUnauthorized, StatusNotFound,
     StatusMethodNotAllowed, StatusInternalServerError}

\* C21: with a validator and a handler that return, every request that has
\* arrived reaches its end; exactly one status is written for it, one of
\* 200, 400, 401, 404, 405 and 500, and no step runs once it is written.
C21_ExactlyOneTerminalStatus ==
    /\ [](\A r \in Reqs :
            /\ req[r].writes <= 1
            /\ Done(req[r]) =>
                  req[r].writes = 1 /\ req[r].status \in TerminalStatuses
            /\ ~Done(req[r]) => req[r].writes = 0 /\ req[r].status = 0)
    /\ [][\A r \in Reqs : req[r].writes = 1 => req'[r] = req[r]]_vars
    /\ \A r \in Reqs : (req[r].pc # "idle") ~> Done(req[r])

\* a request refused by the validator: 401 written once, nothing after it
C21_Witness ==
    \E r \in Reqs :
       /\ Done(req[r])
       /\ req[r].writes = 1
       /\ req[r].status = StatusUnauthorized
       /\ req[r].steps = <<"method", "envelope", "validator">>

\* C22: ParseFunction is total: for every string, lists of more than 26
\* entries and lists with empty entries included, it returns a descriptor
\* or an error and never aborts, and every default name it gives is a
\* single lowercase letter.
C22_ParseFunctionTotal ==
    \A k \in 1..Len(parses) :
       /\ parses[k].res.err # ErrPanic
       /\ ParsedOk(parses[k]) =>
            LET written == Params(parses[k].parts[1].inputs)
                             \o Params(parses[k].parts[1].outputs)
                got == parses[k].res.method.Inputs
                         \o parses[k].res.method.Outputs
            IN  \A p \in 1..Len(written) :
                   written[p].name = <<>> =>
                      \E c \in Lower : got[p].Name = <<c>>

=============================================================================
